---- MODULE Spec2Model ----
(***************************************************************************)
(* RlpxServer (packages/client/lib/net/server/rlpxserver.ts): lifecycle    *)
(* of the DPT (DiscoveryTable) and RLPx (SessionMultiplexer) instances,    *)
(* the peers map (PeerRegistry), the rlpx event handlers and error().      *)
(*                                                                         *)
(* JavaScript runs one handler at a time: every action below is one        *)
(* synchronous run of code, from a call or an event delivery up to the     *)
(* next await (or the end).  The continuation after an await is its own    *)
(* action.  Whatever the code does not decide (whether an external promise *)
(* resolves or rejects, when an event is delivered) is chosen with \E.     *)
(***************************************************************************)
EXTENDS Integers, Sequences, FiniteSets, TLC

\* ------------------------------------------------------------- bounds
MaxStarts == 2       \* start() calls that pass the guard in a run
MaxStops == 1        \* stop() calls suspended in super.stop() at a time
MaxBans == 1         \* banPeer() calls the DPTs receive in a run
MaxErrs == 1         \* length of the error log up to which dpt / rlpx raise errors
MaxSessions == 2     \* sessions the multiplexer opens in a run, over all peer ids
MaxBootnodes == 2    \* longest configured bootnode list

PeerIds == {1, 2}     \* remote peer ids (rlpxPeer.getId() as hex)
Ports == {0, 30303}  \* options.port; 0 is falsy, 30303 the default (line 56)
DefaultMaxAge == 60000
\* maxAge arguments of ban(): 0 stands for an omitted argument
MaxAges == {0, 1000}

\* An error message is a sequence of words.
Messages ==
  { <<"unexpected">>,
    <<"read", "ECONNRESET">>,
    <<"Invalid", "timestamp">>,
    <<"peer", "Invalid", "MAC", "received">> }
AcceptErrors == { <<"Handshake", "timed", "out">>, <<"protocol", "mismatch">> }
BootstrapError(n) ==
  IF n = 1 THEN <<"bootnode", "unreachable">> ELSE <<"Timeout", "error:", "ping">>

\* peer argument of error(): a record built for session sess of peer id,
\* or NoPeer when the argument is undefined
NoPeer == [id |-> 0, sess |-> 0]
ServerSink == [id |-> 0, sess |-> 0]

\* this.key is undefined unless the options give a key; randomBytes(32)
\* returns a fresh string of 32 bytes on every call
NoKey == "undefined"
UserKeys == { "user" }
RandomBytes == { "random-a", "random-b" }

\* no BlockHeader / TransactionFactory call is at hand
NoCall == [op |-> "none"]

VARIABLES
  call,        \* the BlockHeader / TransactionFactory call at hand: inputs and result
  key,         \* this.key: the configured private key, NoKey when undefined
  port,        \* this.port
  bootnodes,   \* this.bootnodes, as the set 1..k of configured bootnodes
  started,     \* this.started
  dpt,         \* this.dpt: index into dpts, 0 for null
  rlpx,        \* this.rlpx: index into rlpxs, 0 for null
  dpts,        \* every Devp2pDPT constructed so far
  rlpxs,       \* every Devp2pRLPx constructed so far
  starts,      \* every start() invocation that passed the guard
  stops,       \* stop() invocations suspended in super.stop()
  peers,       \* this.peers: id -> session of the stored RlpxPeer, 0 if absent
  handlers,    \* peer:added handlers suspended in peer.accept()
  sessions,    \* the multiplexer's sessions: id -> [n, open]
  peerLog,     \* emitted connected / disconnected events, per peer id
  errLog,      \* emitted error events: [on, msg]
  lastOp       \* the operation the last step ran, with its result

vars == << call, key, port, bootnodes, started, dpt, rlpx, dpts, rlpxs, starts, stops,
           peers, handlers, sessions, peerLog, errLog, lastOp >>

Op(o, i, n, m, r) == [op |-> o, id |-> i, n |-> n, msg |-> m, ret |-> r]

\* ------------------------------------------------------------ error()
\* const ignoredErrors = new RegExp([...].join('|')): a message matches when
\* one of the eleven literals occurs in it
IgnoredPatterns ==
  { <<"EPIPE">>,
    <<"ECONNRESET">>,
    <<"ETIMEDOUT">>,
    <<"NetworkId", "mismatch">>,
    <<"Timeout", "error:", "ping">>,
    <<"Genesis", "block", "mismatch">>,
    <<"Handshake", "timed", "out">>,
    <<"Invalid", "address", "buffer">>,
    <<"Invalid", "MAC">>,
    <<"Invalid", "timestamp", "buffer">>,
    <<"Hash", "verification", "failed">> }

Occurs(p, msg) ==
  \E i \in 1..Len(msg) :
     /\ i + Len(p) - 1 <= Len(msg)
     /\ SubSeq(msg, i, i + Len(p) - 1) = p

ignoredErrors(msg) == \E p \in IgnoredPatterns : Occurs(p, msg)

\* error(error, peer): the error log after the call
errorMut(msg, peer) ==
  IF ignoredErrors(msg) THEN errLog
  ELSE Append(errLog, [on |-> ServerSink, msg |-> msg])

error(msg, peer) ==
  IF ignoredErrors(msg) THEN errLog
  ELSE IF peer # NoPeer THEN Append(errLog, [on |-> peer, msg |-> msg])
  ELSE Append(errLog, [on |-> ServerSink, msg |-> msg])

\* ---------------------------------------------------------------- Init
\* the server after construction
Constructed ==
  /\ key \in UserKeys \cup {NoKey}
  /\ port \in Ports
  /\ bootnodes \in { 1..k : k \in 0..MaxBootnodes }
  /\ started = FALSE
  /\ dpt = 0
  /\ rlpx = 0
  /\ dpts = << >>
  /\ rlpxs = << >>
  /\ starts = << >>
  /\ stops = 0
  /\ peers = [i \in PeerIds |-> 0]
  /\ handlers = {}
  /\ sessions = [i \in PeerIds |-> [n |-> 0, open |-> FALSE]]
  /\ peerLog = [i \in PeerIds |-> << >>]
  /\ errLog = << >>
  /\ lastOp = Op("init", 0, 0, << >>, "-")

Init == call = NoCall /\ Constructed

\* --------------------------------------------------------------- start
\* start(), up to `await super.start()`
StartCall ==
  /\ IF started
       THEN /\ lastOp' = Op("start", 0, 0, << >>, "false")
            /\ UNCHANGED starts
       ELSE /\ starts' = Append(starts,
                 [pc |-> "super", dpt |-> 0, rlpx |-> 0, pending |-> {},
                  failed |-> {}, routed |-> {}, ret |-> "-"])
            /\ lastOp' = Op("start", 0, Len(starts) + 1, << >>, "-")
  /\ UNCHANGED << call, key, port, bootnodes, started, dpt, rlpx, dpts, rlpxs, stops,
                  peers, handlers, sessions, peerLog, errLog >>

\* `this.key ?? randomBytes(32)`: the values the expression can have
LocalSecrets == IF key # NoKey THEN {key} ELSE RandomBytes

\* initDpt(): the DPT it constructs; secret is the value of
\* `this.key ?? randomBytes(32)` in it
initDpt(secret) ==
  [destroyed |-> FALSE, bound |-> (port # 0), bans |-> << >>, privateKey |-> secret]

\* initRlpx(): the RLPx it constructs, on the DPT just made; secret is the
\* value of `this.key ?? randomBytes(32)` in it
initRlpx(d, secret) ==
  [destroyed |-> FALSE, dpt |-> d, listenPending |-> (port # 0), listening |-> 0,
   privateKey |-> secret]

\* super.start() rejects: start() rejects before anything is constructed
SuperStartRejects(i) ==
  /\ i \in 1..Len(starts)
  /\ starts[i].pc = "super"
  /\ starts' = [starts EXCEPT ![i].pc = "done", ![i].ret = "throw"]
  /\ lastOp' = Op("start:super", 0, i, << >>, "throw")
  /\ UNCHANGED << call, key, port, bootnodes, started, dpt, rlpx, dpts, rlpxs, stops,
                  peers, handlers, sessions, peerLog, errLog >>

\* super.start() resolves, initDpt() runs and initRlpx() throws
InitRlpxThrows(i) ==
  /\ i \in 1..Len(starts)
  /\ starts[i].pc = "super"
  /\ \E ds \in LocalSecrets : dpts' = Append(dpts, initDpt(ds))
  /\ dpt' = Len(dpts) + 1
  /\ starts' = [starts EXCEPT ![i].pc = "done", ![i].ret = "throw",
                              ![i].dpt = Len(dpts) + 1]
  /\ lastOp' = Op("start:init", 0, i, << >>, "throw")
  /\ UNCHANGED << call, key, port, bootnodes, started, rlpx, rlpxs, stops,
                  peers, handlers, sessions, peerLog, errLog >>

\* super.start() resolves: initDpt(), initRlpx(), then bootstrap() up to
\* `await Promise.all(promises)`; with no bootnodes Promise.all([]) is
\* already resolved and start() runs to its end
StartInit(i) ==
  /\ i \in 1..Len(starts)
  /\ starts[i].pc = "super"
  /\ \E ds \in LocalSecrets : dpts' = Append(dpts, initDpt(ds))
  /\ dpt' = Len(dpts) + 1
  /\ \E rs \in LocalSecrets : rlpxs' = Append(rlpxs, initRlpx(Len(dpts) + 1, rs))
  /\ rlpx' = Len(rlpxs) + 1
  /\ IF bootnodes = {}
       THEN /\ starts' = [starts EXCEPT ![i].pc = "done", ![i].ret = "true",
                              ![i].dpt = Len(dpts) + 1, ![i].rlpx = Len(rlpxs) + 1]
            /\ started' = TRUE
            /\ lastOp' = Op("start:init", 0, i, << >>, "true")
       ELSE /\ starts' = [starts EXCEPT ![i].pc = "bootstrap", ![i].pending = bootnodes,
                              ![i].dpt = Len(dpts) + 1, ![i].rlpx = Len(rlpxs) + 1]
            /\ started' = started
            /\ lastOp' = Op("start:init", 0, i, << >>, "-")
  /\ UNCHANGED << call, key, port, bootnodes, stops,
                  peers, handlers, sessions, peerLog, errLog >>

\* ------------------------------------------------------------ bootstrap
\* dpt.bootstrap(bootnode) of node n settles.  Promise.all rejects with the
\* first rejection and resolves with the last resolution; then bootstrap()
\* returns (through the catch on a rejection) and start() sets started.
\* A promise that settles after Promise.all has settled has no continuation.
BootstrapSettles(i, n, ok) ==
  /\ i \in 1..Len(starts)
  /\ n \in starts[i].pending
  /\ LET s == starts[i]
         left == s.pending \ {n}
         failed == IF ok THEN s.failed ELSE s.failed \cup {n}
     IN
     IF s.pc = "bootstrap" /\ ~ok
       THEN /\ errLog' = error(BootstrapError(n), NoPeer)
            /\ started' = TRUE
            /\ starts' = [starts EXCEPT ![i].pending = left, ![i].failed = failed,
                               ![i].routed = @ \cup {n}, ![i].pc = "done",
                               ![i].ret = "true"]
            /\ lastOp' = Op("bootstrap", 0, i, BootstrapError(n), "true")
       ELSE IF s.pc = "bootstrap" /\ left = {}
       THEN /\ errLog' = errLog
            /\ started' = TRUE
            /\ starts' = [starts EXCEPT ![i].pending = left, ![i].failed = failed,
                               ![i].pc = "done", ![i].ret = "true"]
            /\ lastOp' = Op("bootstrap", 0, i, << >>, "true")
       ELSE /\ errLog' = errLog
            /\ started' = started
            /\ starts' = [starts EXCEPT ![i].pending = left, ![i].failed = failed]
            /\ lastOp' = Op("bootstrap", 0, i, << >>, "-")
  /\ UNCHANGED << call, key, port, bootnodes, dpt, rlpx, dpts, rlpxs, stops,
                  peers, handlers, sessions, peerLog >>

\* ---------------------------------------------------------------- stop
\* stop(), up to `await super.stop()`; destroyOk is whether rlpx.destroy()
\* returns (TRUE) or throws (FALSE)
StopCall(destroyOk) ==
  /\ IF ~started
       THEN /\ destroyOk
            /\ lastOp' = Op("stop", 0, 0, << >>, "false")
            /\ UNCHANGED << dpts, rlpxs, stops >>
       ELSE IF destroyOk
       THEN /\ rlpxs' = [rlpxs EXCEPT ![rlpx].destroyed = TRUE,
                                      ![rlpx].listenPending = FALSE]
            /\ dpts' = [dpts EXCEPT ![dpt].destroyed = TRUE]
            /\ stops' = stops + 1
            /\ lastOp' = Op("stop", 0, 0, << >>, "-")
       ELSE /\ lastOp' = Op("stop", 0, 0, << >>, "throw")
            /\ UNCHANGED << dpts, rlpxs, stops >>
  /\ UNCHANGED << call, key, port, bootnodes, started, dpt, rlpx, starts,
                  peers, handlers, sessions, peerLog, errLog >>

\* super.stop() resolves: started = false; return this.started
StopDone ==
  /\ stops > 0
  /\ stops' = stops - 1
  /\ started' = FALSE
  /\ handlers' = { [h EXCEPT !.atStop = TRUE] : h \in handlers }
  /\ lastOp' = Op("stop:done", 0, 0, << >>, "false")
  /\ UNCHANGED << call, key, port, bootnodes, dpt, rlpx, dpts, rlpxs, starts,
                  peers, sessions, peerLog, errLog >>

\* ----------------------------------------------------------------- ban
\* ban(peerId, maxAge = 60000); maxAge 0 stands for an omitted argument
BanCallMut(id, maxAge) ==
  /\ dpt # 0
  /\ dpts' = [dpts EXCEPT ![dpt].bans =
                 Append(@, [id |-> id, maxAge |-> IF maxAge = 0 THEN DefaultMaxAge ELSE maxAge])]
  /\ lastOp' = Op("ban", id, maxAge, << >>, "true")
  /\ UNCHANGED << call, key, port, bootnodes, started, dpt, rlpx, rlpxs, starts, stops,
                  peers, handlers, sessions, peerLog, errLog >>

BanCall(id, maxAge) ==
  /\ IF ~started
       THEN /\ lastOp' = Op("ban", id, maxAge, << >>, "false")
            /\ UNCHANGED dpts
       ELSE /\ dpts' = [dpts EXCEPT ![dpt].bans =
                 Append(@, [id |-> id, maxAge |-> IF maxAge = 0 THEN DefaultMaxAge ELSE maxAge])]
            /\ lastOp' = Op("ban", id, maxAge, << >>, "true")
  /\ UNCHANGED << call, key, port, bootnodes, started, dpt, rlpx, rlpxs, starts, stops,
                  peers, handlers, sessions, peerLog, errLog >>

\* ----------------------------------------------------------- listening
\* rlpx r raises 'listening' (once, after listen()): the server emits
\* 'listening'
RlpxListening(r) ==
  /\ r \in 1..Len(rlpxs)
  /\ rlpxs[r].listenPending
  /\ rlpxs' = [rlpxs EXCEPT ![r].listenPending = FALSE, ![r].listening = @ + 1]
  /\ lastOp' = Op("listening", 0, r, << >>, "-")
  /\ UNCHANGED << call, key, port, bootnodes, started, dpt, rlpx, dpts, starts, stops,
                  peers, handlers, sessions, peerLog, errLog >>

\* ------------------------------------------------------ session events
\* The multiplexer keeps at most one session per peer id: for one id,
\* peer:added and peer:removed alternate, peer:added first.
LiveRlpx == { r \in 1..Len(rlpxs) : ~rlpxs[r].destroyed }

\* 'peer:added': the handler builds the RlpxPeer and awaits peer.accept()
PeerAdded(id) ==
  /\ LiveRlpx # {}
  /\ ~sessions[id].open
  /\ sessions' = [sessions EXCEPT ![id] = [n |-> @.n + 1, open |-> TRUE]]
  /\ handlers' = handlers \cup
        { [id |-> id, sess |-> sessions[id].n + 1, atStop |-> FALSE] }
  /\ lastOp' = Op("peer:added", id, sessions[id].n + 1, << >>, "-")
  /\ UNCHANGED << call, key, port, bootnodes, started, dpt, rlpx, dpts, rlpxs, starts, stops,
                  peers, peerLog, errLog >>

\* peer.accept() resolves: peers.set(peer.id, peer); emit('connected', peer)
AcceptResolves(h) ==
  /\ h \in handlers
  /\ handlers' = handlers \ {h}
  /\ peers' = [peers EXCEPT ![h.id] = h.sess]
  /\ peerLog' = [peerLog EXCEPT ![h.id] =
                    Append(@, [ev |-> "connected", sess |-> h.sess])]
  /\ lastOp' = Op("accept", h.id, h.sess, << >>, "ok")
  /\ UNCHANGED << call, key, port, bootnodes, started, dpt, rlpx, dpts, rlpxs, starts, stops,
                  sessions, errLog >>

\* peer.accept() rejects: this.error(error)
AcceptRejects(h, msg) ==
  /\ h \in handlers
  /\ handlers' = handlers \ {h}
  /\ errLog' = error(msg, NoPeer)
  /\ lastOp' = Op("accept", h.id, h.sess, msg, "throw")
  /\ UNCHANGED << call, key, port, bootnodes, started, dpt, rlpx, dpts, rlpxs, starts, stops,
                  peers, sessions, peerLog >>

\* 'peer:removed'
PeerRemovedMut(id) ==
  /\ sessions[id].open
  /\ sessions' = [sessions EXCEPT ![id].open = FALSE]
  /\ peers' = [i \in PeerIds |-> 0]
  /\ peerLog' = [peerLog EXCEPT ![id] =
                    Append(@, [ev |-> "disconnected", sess |-> peers[id]])]
  /\ lastOp' = Op("peer:removed", id, sessions[id].n, << >>, "-")
  /\ UNCHANGED << call, key, port, bootnodes, started, dpt, rlpx, dpts, rlpxs, starts, stops,
                  handlers, errLog >>

PeerRemoved(id) ==
  /\ sessions[id].open
  /\ sessions' = [sessions EXCEPT ![id].open = FALSE]
  /\ IF peers[id] # 0
       THEN /\ peers' = [peers EXCEPT ![id] = 0]
            /\ peerLog' = [peerLog EXCEPT ![id] =
                    Append(@, [ev |-> "disconnected", sess |-> peers[id]])]
       ELSE UNCHANGED << peers, peerLog >>
  /\ lastOp' = Op("peer:removed", id, sessions[id].n, << >>, "-")
  /\ UNCHANGED << call, key, port, bootnodes, started, dpt, rlpx, dpts, rlpxs, starts, stops,
                  handlers, errLog >>

\* 'peer:error': handle is -1 when rlpxPeer is null, 0 when getId() gives
\* nothing, else the id it gives
NoHandle == -1
NoId == 0
PeerError(handle, msg) ==
  /\ rlpxs # << >>
  /\ LET peer == IF handle \in PeerIds /\ peers[handle] # 0
                   THEN [id |-> handle, sess |-> peers[handle]]
                   ELSE NoPeer
     IN errLog' = error(msg, peer)
  /\ lastOp' = Op("peer:error", handle, 0, msg, "-")
  /\ UNCHANGED << call, key, port, bootnodes, started, dpt, rlpx, dpts, rlpxs, starts, stops,
                  peers, handlers, sessions, peerLog >>

\* rlpx 'error'
RlpxError(msg) ==
  /\ rlpxs # << >>
  /\ errLog' = error(msg, NoPeer)
  /\ lastOp' = Op("rlpx:error", 0, 0, msg, "-")
  /\ UNCHANGED << call, key, port, bootnodes, started, dpt, rlpx, dpts, rlpxs, starts, stops,
                  peers, handlers, sessions, peerLog >>

\* dpt 'error'
DptError(msg) ==
  /\ dpts # << >>
  /\ errLog' = error(msg, NoPeer)
  /\ lastOp' = Op("dpt:error", 0, 0, msg, "-")
  /\ UNCHANGED << call, key, port, bootnodes, started, dpt, rlpx, dpts, rlpxs, starts, stops,
                  peers, handlers, sessions, peerLog >>

Handlers == [id : PeerIds, sess : 1..MaxSessions, atStop : BOOLEAN]

\* -------------------------------------------------------- specifications
Banned == LET RECURSIVE Sum(_)
              Sum(k) == IF k = 0 THEN 0 ELSE Len(dpts[k].bans) + Sum(k - 1)
          IN Sum(Len(dpts))

Lifecycle ==
  \/ (~started => Len(starts) < MaxStarts) /\ StartCall
  \/ \E i \in 1..MaxStarts : SuperStartRejects(i)
  \/ \E i \in 1..MaxStarts : InitRlpxThrows(i)
  \/ \E i \in 1..MaxStarts : StartInit(i)
  \/ \E ok \in BOOLEAN : (started => stops < MaxStops) /\ StopCall(ok)
  \/ StopDone
  \/ \E id \in PeerIds, a \in MaxAges : (started => Banned < MaxBans) /\ BanCall(id, a)

Listening ==
  \E r \in 1..MaxStarts : RlpxListening(r)

Bootstrap ==
  \E i \in 1..MaxStarts, n \in 1..MaxBootnodes, ok \in BOOLEAN : BootstrapSettles(i, n, ok)

Opened == LET RECURSIVE Sum(_)
              Sum(S) == IF S = {} THEN 0
                        ELSE LET i == CHOOSE x \in S : TRUE
                             IN sessions[i].n + Sum(S \ {i})
          IN Sum(PeerIds)

Accept ==
  \/ \E id \in PeerIds : Opened < MaxSessions /\ PeerAdded(id)
  \/ \E h \in Handlers : AcceptResolves(h)
  \/ \E h \in Handlers, m \in AcceptErrors : AcceptRejects(h, m)

Session ==
  \/ Accept
  \/ \E id \in PeerIds : PeerRemoved(id)

Errors ==
  \/ \E hd \in {NoHandle, NoId} \cup PeerIds, m \in Messages :
        Len(errLog) < MaxErrs /\ PeerError(hd, m)
  \/ \E m \in Messages : Len(errLog) < MaxErrs /\ RlpxError(m)
  \/ \E m \in Messages : Len(errLog) < MaxErrs /\ DptError(m)

\* a server configured with a key
InitKeyed == Init /\ key \in UserKeys

\* a server configured with a key and without bootnodes
InitNoBoot == InitKeyed /\ bootnodes = {}

\* a server configured without bootnodes, with or without a key
InitAnyKey == Init /\ bootnodes = {}

\* a server without bootnodes whose start() has resolved true
InitStarted ==
  /\ call = NoCall
  /\ key \in UserKeys
  /\ port \in Ports
  /\ bootnodes = {}
  /\ started = TRUE
  /\ dpt = 1
  /\ rlpx = 1
  /\ dpts = << initDpt(key) >>
  /\ rlpxs = << initRlpx(1, key) >>
  /\ starts = << [pc |-> "done", dpt |-> 1, rlpx |-> 1, pending |-> {},
                  failed |-> {}, routed |-> {}, ret |-> "true"] >>
  /\ stops = 0
  /\ peers = [i \in PeerIds |-> 0]
  /\ handlers = {}
  /\ sessions = [i \in PeerIds |-> [n |-> 0, open |-> FALSE]]
  /\ peerLog = [i \in PeerIds |-> << >>]
  /\ errLog = << >>
  /\ lastOp = Op("start:init", 0, 1, << >>, "true")

Stop ==
  \/ (started => stops < MaxStops) /\ StopCall(TRUE)
  \/ StopDone

\* lifecycle calls on a server without bootnodes
NextLifecycle == Lifecycle
SpecLifecycle == InitNoBoot /\ [][NextLifecycle]_vars

\* lifecycle calls with bootnodes, and the listening event
Next == Lifecycle \/ Listening \/ Bootstrap
Spec == InitKeyed /\ [][Next]_vars

\* lifecycle calls on a server with or without a configured key
NextKeys == Lifecycle
SpecKeys == InitAnyKey /\ [][NextKeys]_vars

\* a started server: sessions come and go until it is stopped
NextRegistry == Session \/ Stop
SpecRegistry == InitStarted /\ [][NextRegistry]_vars

\* a started server: incoming sessions and transport errors
NextErrors == Accept \/ Errors
SpecErrors == InitStarted /\ [][NextErrors]_vars

\* ======================================================== BlockHeader
\* The BlockHeader and TransactionFactory calls are pure: a specification
\* for them starts with the inputs of one call in `call` and its one action
\* applies the code to them.  The server is idle meanwhile.
ServerIdle == Constructed /\ key \in UserKeys /\ port = 30303 /\ bootnodes = {}

ServerVars == << key, port, bootnodes, started, dpt, rlpx, dpts, rlpxs, starts,
                 stops, peers, handlers, sessions, peerLog, errLog, lastOp >>

\* ----------------------------------------------------- validateGasLimit
MaxGasLimit == 12    \* parent gas limits 0..MaxGasLimit, besides the mainnet-sized ones
GasSpan == 11        \* header gas limits lie within GasSpan of the parent's

\* paramByHardfork('gasConfig', 'gasLimitBoundDivisor', hardfork) and
\* paramByHardfork('gasConfig', 'minGasLimit', hardfork): mainnet has 1024
\* and 5000
GasLimitBoundDivisors == {1, 3, 1024}
MinGasLimits == {0, 5, 5000}
ParentGasLimits == (0..MaxGasLimit) \cup {1023, 1024, 5000, 10240}

\* validateGasLimit(parentBlockHeader), with the two parameters of the
\* header's hardfork
validateGasLimitMut(gasLimit, parentGasLimit, divisor, minGas) ==
  LET a == parentGasLimit \div divisor
      maxGasLimit == parentGasLimit + a
      minGasLimit == parentGasLimit - a
  IN gasLimit <= maxGasLimit /\ gasLimit > minGasLimit /\ gasLimit >= minGas

validateGasLimit(gasLimit, parentGasLimit, divisor, minGas) ==
  LET a == parentGasLimit \div divisor
      maxGasLimit == parentGasLimit + a
      minGasLimit == parentGasLimit - a
  IN gasLimit < maxGasLimit /\ gasLimit > minGasLimit /\ gasLimit >= minGas

InitGasLimit ==
  /\ ServerIdle
  /\ \E pg \in ParentGasLimits, d \in (0 - GasSpan)..GasSpan,
        dv \in GasLimitBoundDivisors, mg \in MinGasLimits :
        /\ pg + d >= 0
        /\ call = [op |-> "validateGasLimit", gasLimit |-> pg + d,
                   parentGasLimit |-> pg, divisor |-> dv, minGasLimit |-> mg,
                   done |-> FALSE, ret |-> FALSE]

ValidateGasLimit ==
  /\ call.op = "validateGasLimit"
  /\ ~call.done
  /\ call' = [call EXCEPT !.done = TRUE,
                !.ret = validateGasLimit(call.gasLimit, call.parentGasLimit,
                                         call.divisor, call.minGasLimit)]
  /\ UNCHANGED ServerVars

NextGasLimit == ValidateGasLimit
SpecGasLimit == InitGasLimit /\ [][NextGasLimit]_vars

\* ------------------------------------------------------------------ BN
\* A BN is an integer of any size.  It is kept here as << hi, lo >> standing
\* for hi * BNWord + lo with 0 <= lo < BNWord; a negative BN has hi < 0.
BNWord == 1048576

bnNorm(hi, lo) == << hi + (lo \div BNWord), lo % BNWord >>
bnFromInt(n) == bnNorm(0, n)
bnAdd(x, y) == bnNorm(x[1] + y[1], x[2] + y[2])
bnSub(x, y) == bnNorm(x[1] - y[1], x[2] - y[2])
\* x.muln(k), |k| < 1000
bnMuln(x, k) == LET l == bnNorm(0, x[2] * k) IN << x[1] * k + l[1], l[2] >>
\* x.divn(d) for x >= 0 and 0 < d <= 2048
bnDivn(x, d) == bnNorm(x[1] \div d, (((x[1] % d) * BNWord) + x[2]) \div d)
bnLt(x, y) == x[1] < y[1] \/ (x[1] = y[1] /\ x[2] < y[2])
\* new BN(2).pow(e)
bnPow2(e) == IF e < 20 THEN << 0, 2 ^ e >> ELSE << 2 ^ (e - 20), 0 >>
\* the BN written in decimal with the groups of three digits g[1], g[2], ...
RECURSIVE bnDecimal(_)
bnDecimal(g) ==
  IF Len(g) = 0 THEN << 0, 0 >>
  ELSE bnAdd(bnMuln(bnDecimal(SubSeq(g, 1, Len(g) - 1)), 1000), bnFromInt(g[Len(g)]))

\* x.idivn(n) of a number: the quotient is truncated toward zero
idivn(x, n) == IF x >= 0 THEN x \div n ELSE 0 - ((0 - x) \div n)

\* ------------------------------------------------------------- Common
\* the hardforks in the order Common keeps them
Hardforks ==
  << "chainstart", "homestead", "dao", "tangerineWhistle", "spuriousDragon",
     "byzantium", "constantinople", "petersburg", "istanbul", "muirGlacier", "berlin" >>
HardforkNames == { Hardforks[i] : i \in 1..Len(Hardforks) }
hardforkIndex(hf) == CHOOSE i \in 1..Len(Hardforks) : Hardforks[i] = hf
hardforkGteHardfork(hf1, hf2) == hardforkIndex(hf1) >= hardforkIndex(hf2)

\* KECCAK256_RLP_ARRAY, the uncleHash of a block without uncles
KECCAK256_RLP_ARRAY ==
  << 29, 204, 77, 232, 222, 199, 93, 122, 171, 133, 181, 103, 182, 204, 212, 26,
     211, 18, 69, 27, 148, 138, 116, 19, 240, 161, 66, 253, 64, 212, 147, 71 >>
zeros(n) == [i \in 1..n |-> 0]

\* ------------------------------------------------- canonicalDifficulty
\* canonicalDifficulty(parentBlockHeader) of a header with hardfork hf on
\* the chain `common`: the consensus, and the 'pow' parameters of hf
canonicalDifficultyMut(common, hf, number, blockTs, parentTs, parentDif, parentUncleHash) ==
  IF common.consensusType # "pow"
    THEN [err |-> "difficulty calculation is only supported on PoW chains"]
  ELSE IF common.consensusAlgorithm # "ethash"
    THEN [err |-> "difficulty calculation currently only supports the ethash algorithm"]
  ELSE
  LET minimumDifficulty == bnFromInt(common.minimumDifficulty)
      offset == bnDivn(parentDif, common.difficultyBoundDivisor)
      byzantium ==
        LET uncleAddend == IF parentUncleHash = KECCAK256_RLP_ARRAY THEN 1 ELSE 2
            a0 == (0 - idivn(blockTs - parentTs, 10)) + uncleAddend
            a == IF -99 > a0 THEN -99 ELSE a0
        IN bnAdd(parentDif, bnMuln(offset, a))
      dif0 == IF hardforkGteHardfork(hf, "byzantium") THEN byzantium ELSE << >>
      delayed(by) == IF number - by < 0 THEN 0 ELSE number - by
      r == IF hardforkGteHardfork(hf, "muirGlacier")
             THEN [num |-> delayed(9000000), dif |-> dif0]
           ELSE IF hardforkGteHardfork(hf, "constantinople")
             THEN [num |-> delayed(5000000), dif |-> dif0]
           ELSE IF hardforkGteHardfork(hf, "byzantium")
             THEN [num |-> delayed(3000000), dif |-> dif0]
           ELSE IF hardforkGteHardfork(hf, "homestead")
             THEN LET a0 == (0 - idivn(blockTs - parentTs, 10)) + 1
                      a == IF -99 > a0 THEN -99 ELSE a0
                  IN [num |-> number, dif |-> bnAdd(parentDif, bnMuln(offset, a))]
           ELSE IF parentTs + common.durationLimit > blockTs
             THEN [num |-> number, dif |-> bnAdd(offset, parentDif)]
             ELSE [num |-> number, dif |-> bnSub(parentDif, offset)]
      exp == (r.num \div 100000) - 2
      dif == IF ~(exp < 0) THEN bnAdd(r.dif, bnPow2(exp)) ELSE r.dif
  IN [err |-> "", dif |-> IF bnLt(dif, minimumDifficulty) THEN minimumDifficulty ELSE dif]

canonicalDifficulty(common, hf, number, blockTs, parentTs, parentDif, parentUncleHash) ==
  IF common.consensusType # "pow"
    THEN [err |-> "difficulty calculation is only supported on PoW chains"]
  ELSE IF common.consensusAlgorithm # "ethash"
    THEN [err |-> "difficulty calculation currently only supports the ethash algorithm"]
  ELSE
  LET minimumDifficulty == bnFromInt(common.minimumDifficulty)
      offset == bnDivn(parentDif, common.difficultyBoundDivisor)
      byzantium ==
        LET uncleAddend == IF parentUncleHash = KECCAK256_RLP_ARRAY THEN 1 ELSE 2
            a0 == (0 - idivn(blockTs - parentTs, 9)) + uncleAddend
            a == IF -99 > a0 THEN -99 ELSE a0
        IN bnAdd(parentDif, bnMuln(offset, a))
      dif0 == IF hardforkGteHardfork(hf, "byzantium") THEN byzantium ELSE << >>
      delayed(by) == IF number - by < 0 THEN 0 ELSE number - by
      r == IF hardforkGteHardfork(hf, "muirGlacier")
             THEN [num |-> delayed(9000000), dif |-> dif0]
           ELSE IF hardforkGteHardfork(hf, "constantinople")
             THEN [num |-> delayed(5000000), dif |-> dif0]
           ELSE IF hardforkGteHardfork(hf, "byzantium")
             THEN [num |-> delayed(3000000), dif |-> dif0]
           ELSE IF hardforkGteHardfork(hf, "homestead")
             THEN LET a0 == (0 - idivn(blockTs - parentTs, 10)) + 1
                      a == IF -99 > a0 THEN -99 ELSE a0
                  IN [num |-> number, dif |-> bnAdd(parentDif, bnMuln(offset, a))]
           ELSE IF parentTs + common.durationLimit > blockTs
             THEN [num |-> number, dif |-> bnAdd(offset, parentDif)]
             ELSE [num |-> number, dif |-> bnSub(parentDif, offset)]
      exp == (r.num \div 100000) - 2
      dif == IF ~(exp < 0) THEN bnAdd(r.dif, bnPow2(exp)) ELSE r.dif
  IN [err |-> "", dif |-> IF bnLt(dif, minimumDifficulty) THEN minimumDifficulty ELSE dif]

MaxDt == 20      \* timestamp differences 0..MaxDt, besides those around the -99 cutoff
MaxExp == 38     \* largest exponent of the difficulty bomb

\* paramByHardfork('pow', ...): mainnet's parameters, and a custom chain's
PowParams ==
  { [consensusType |-> "pow", consensusAlgorithm |-> "ethash",
     minimumDifficulty |-> 131072, difficultyBoundDivisor |-> 2048, durationLimit |-> 13],
    [consensusType |-> "pow", consensusAlgorithm |-> "ethash",
     minimumDifficulty |-> 1000, difficultyBoundDivisor |-> 16, durationLimit |-> 5] }

ParentDifficulties ==
  { bnFromInt(15), bnFromInt(2047), bnFromInt(131072), bnFromInt(1000000),
    bnDecimal(<< 3, 0, 0, 0 >>), bnDecimal(<< 1, 0, 0, 0, 0 >>) }
TimeDiffs == (0..MaxDt) \cup {899, 900, 909, 910, 990, 1000, 5000}
BlockNumbers ==
  { n + d : n \in {1, 199999, 200000, 299999, 300000, 2000001, 3100000},
            d \in {0, 3000000, 5000000, 9000000} }

\* the block number up to which the bomb's exponent stays within MaxExp
NumberCap(hf) ==
  (MaxExp + 3) * 100000 +
    (IF hardforkGteHardfork(hf, "muirGlacier") THEN 9000000
     ELSE IF hardforkGteHardfork(hf, "constantinople") THEN 5000000
     ELSE IF hardforkGteHardfork(hf, "byzantium") THEN 3000000 ELSE 0)

InitDifficulty ==
  /\ ServerIdle
  /\ \E hf \in HardforkNames, c \in PowParams, pd \in ParentDifficulties,
        dt \in TimeDiffs, uh \in {KECCAK256_RLP_ARRAY, zeros(32)}, n \in BlockNumbers :
        /\ n < NumberCap(hf)
        /\ call = [op |-> "canonicalDifficulty", common |-> c, hardfork |-> hf,
                   number |-> n, timestamp |-> 1000000 + dt,
                   parent |-> [timestamp |-> 1000000, difficulty |-> pd, uncleHash |-> uh],
                   done |-> FALSE, ret |-> [err |-> ""]]

CanonicalDifficulty ==
  /\ call.op = "canonicalDifficulty"
  /\ ~call.done
  /\ call' = [call EXCEPT !.done = TRUE,
                !.ret = canonicalDifficulty(call.common, call.hardfork, call.number,
                           call.timestamp, call.parent.timestamp,
                           call.parent.difficulty, call.parent.uncleHash)]
  /\ UNCHANGED ServerVars

NextDifficulty == CanonicalDifficulty
SpecDifficulty == InitDifficulty /\ [][NextDifficulty]_vars

\* ------------------------------------------------------------ validate
CLIQUE_EXTRA_VANITY == 32
CLIQUE_EXTRA_SEAL == 65

\* a % n of JavaScript numbers: the remainder has the sign of a
jsRem(a, n) == IF a >= 0 THEN a % n ELSE 0 - ((0 - a) % n)

isGenesis(header) == header.number = 0

\* cliqueIsEpochTransition()
cliqueIsEpochTransition(common, header) == header.number % common.epoch = 0

\* validate(), from the hardfork lookup to the await of _getHeaderByHash:
\* the error thrown, "" when none is
validateExtraDataMut(common, header) ==
  IF common.consensusAlgorithm # "clique"
    THEN IF Len(header.extraData) > common.maxExtraDataSize
           THEN "invalid amount of extra data" ELSE ""
  ELSE
    LET minLength == CLIQUE_EXTRA_VANITY + CLIQUE_EXTRA_SEAL
        signerLength == Len(header.extraData) - minLength
    IN IF ~cliqueIsEpochTransition(common, header) /\ Len(header.extraData) # minLength
         THEN "extraData must be 97 bytes on non-epoch transition blocks"
       ELSE IF cliqueIsEpochTransition(common, header) /\ jsRem(signerLength, 20) # 0
         THEN "invalid signer list length in extraData"
       ELSE IF cliqueIsEpochTransition(common, header) /\ header.coinbase # zeros(20)
         THEN "coinbase must be filled with zeros on epoch transition blocks"
       ELSE IF cliqueIsEpochTransition(common, header) /\ header.mixHash # zeros(32)
         THEN "mixHash must be filled with zeros"
       ELSE ""

validateExtraData(common, header) ==
  IF common.consensusAlgorithm # "clique"
    THEN IF Len(header.extraData) > common.maxExtraDataSize
           THEN "invalid amount of extra data" ELSE ""
  ELSE
    LET minLength == CLIQUE_EXTRA_VANITY + CLIQUE_EXTRA_SEAL
        signerLength == Len(header.extraData) - minLength
    IN IF ~cliqueIsEpochTransition(common, header) /\ Len(header.extraData) # minLength
         THEN "extraData must be 97 bytes on non-epoch transition blocks"
       ELSE IF cliqueIsEpochTransition(common, header) /\ jsRem(signerLength, 20) # 0
         THEN "invalid signer list length in extraData"
       ELSE IF cliqueIsEpochTransition(common, header) /\ header.coinbase # zeros(20)
         THEN "coinbase must be filled with zeros on epoch transition blocks"
       ELSE IF header.mixHash # zeros(32)
         THEN "mixHash must be filled with zeros"
       ELSE ""

\* validateDifficulty(parentBlockHeader); called on PoW chains only
validateDifficulty(common, header, parentHeader) ==
  LET c == canonicalDifficulty(common, common.hardfork, header.number, header.timestamp,
                               parentHeader.timestamp, parentHeader.difficulty,
                               parentHeader.uncleHash)
  IN IF c.err # "" THEN [err |-> c.err, ok |-> FALSE]
     ELSE [err |-> "", ok |-> (c.dif = header.difficulty)]

\* validate(), after _getHeaderByHash has settled: found is the header it
\* gave, NoHeader when blockchain.getBlock failed with a NotFoundError;
\* height is NoHeight when the argument is left out
NoHeader == [number |-> -1]
NoHeight == -1
validateParentMut(common, header, parentHeader, height) ==
  IF parentHeader = NoHeader THEN "could not find parent header"
  ELSE IF header.timestamp <= parentHeader.timestamp THEN "invalid timestamp"
  ELSE IF header.number # parentHeader.number + 1 THEN "invalid number"
  ELSE IF common.consensusAlgorithm = "clique"
          /\ parentHeader.timestamp + common.period > header.timestamp
    THEN "invalid timestamp diff (lower than period)"
  ELSE IF common.consensusType = "pow"
          /\ validateDifficulty(common, header, parentHeader).err # ""
    THEN validateDifficulty(common, header, parentHeader).err
  ELSE IF common.consensusType = "pow"
          /\ ~validateDifficulty(common, header, parentHeader).ok
    THEN "invalid difficulty"
  ELSE IF ~validateGasLimit(header.gasLimit, parentHeader.gasLimit,
                            common.gasLimitBoundDivisor, common.minGasLimit)
    THEN "invalid gas limit"
  ELSE IF height # NoHeight
          /\ ~(height - parentHeader.number < 8 /\ height - parentHeader.number > 1)
    THEN "uncle block has a parent that is too old or too young"
  ELSE "ok"

validateParent(common, header, parentHeader, height) ==
  IF parentHeader = NoHeader THEN "could not find parent header"
  ELSE IF header.number # parentHeader.number + 1 THEN "invalid number"
  ELSE IF header.timestamp <= parentHeader.timestamp THEN "invalid timestamp"
  ELSE IF common.consensusAlgorithm = "clique"
          /\ parentHeader.timestamp + common.period > header.timestamp
    THEN "invalid timestamp diff (lower than period)"
  ELSE IF common.consensusType = "pow"
          /\ validateDifficulty(common, header, parentHeader).err # ""
    THEN validateDifficulty(common, header, parentHeader).err
  ELSE IF common.consensusType = "pow"
          /\ ~validateDifficulty(common, header, parentHeader).ok
    THEN "invalid difficulty"
  ELSE IF ~validateGasLimit(header.gasLimit, parentHeader.gasLimit,
                            common.gasLimitBoundDivisor, common.minGasLimit)
    THEN "invalid gas limit"
  ELSE IF height # NoHeight
          /\ ~(height - parentHeader.number < 8 /\ height - parentHeader.number > 1)
    THEN "uncle block has a parent that is too old or too young"
  ELSE "ok"

\* the chains validate() runs on: mainnet (PoW, ethash) and a clique chain
\* (PoA) as rinkeby with its period of 15 and its epoch of 30000
ValidateChains ==
  { [consensusType |-> "pow", consensusAlgorithm |-> "ethash", hardfork |-> "byzantium",
     maxExtraDataSize |-> 32, period |-> 0, epoch |-> 0,
     minimumDifficulty |-> 131072, difficultyBoundDivisor |-> 2048, durationLimit |-> 13,
     gasLimitBoundDivisor |-> 1024, minGasLimit |-> 5000],
    [consensusType |-> "poa", consensusAlgorithm |-> "clique", hardfork |-> "byzantium",
     maxExtraDataSize |-> 32, period |-> 15, epoch |-> 30000,
     minimumDifficulty |-> 131072, difficultyBoundDivisor |-> 2048, durationLimit |-> 13,
     gasLimitBoundDivisor |-> 1024, minGasLimit |-> 5000] }

MaxParentGap == 2     \* the parent's number is 1..MaxParentGap below the header's
MaxUncleGap == 8      \* an uncle's including block is 0..MaxUncleGap above the parent

\* lengths of extraData: around maxExtraDataSize, and around the clique
\* layouts of 97 bytes and of 97 bytes with signers of 20 bytes
ExtraDataLengths(common) ==
  IF common.consensusAlgorithm = "clique" THEN {77, 96, 97, 107, 137} ELSE {0, 32, 33}

InitValidate ==
  /\ ServerIdle
  /\ \E c \in ValidateChains, n \in {0, 60000, 60001}, gap \in 1..MaxParentGap,
        dt \in {0, 1, 14, 15}, canonical \in BOOLEAN, gl \in {10240, 10250} :
     \E len \in ExtraDataLengths(c), cb \in {0, 1}, mh \in {0, 1},
        up \in {NoHeight} \cup (0..MaxUncleGap) :
        LET parent == [number |-> n - gap, timestamp |-> 1000000,
                       difficulty |-> bnFromInt(1000000), gasLimit |-> 10240,
                       uncleHash |-> KECCAK256_RLP_ARRAY]
            cd == canonicalDifficulty(c, c.hardfork, n, 1000000 + dt, parent.timestamp,
                                      parent.difficulty, parent.uncleHash)
            header == [number |-> n, timestamp |-> 1000000 + dt,
                       difficulty |-> IF canonical /\ cd.err = "" THEN cd.dif
                                      ELSE bnFromInt(1),
                       gasLimit |-> gl, extraData |-> zeros(len),
                       coinbase |-> [i \in 1..20 |-> cb], mixHash |-> [i \in 1..32 |-> mh]]
        IN call = [op |-> "validate", common |-> c, header |-> header, parent |-> parent,
                   height |-> IF up = NoHeight THEN NoHeight ELSE parent.number + up,
                   pc |-> "start", lookup |-> "-", ret |-> "-"]

\* validate(blockchain, height) up to `await this._getHeaderByHash(...)`
ValidateCall ==
  /\ call.op = "validate"
  /\ call.pc = "start"
  /\ LET e == validateExtraData(call.common, call.header)
     IN call' = IF isGenesis(call.header)
                  THEN [call EXCEPT !.pc = "done", !.ret = "ok"]
                ELSE IF e # ""
                  THEN [call EXCEPT !.pc = "done", !.ret = e]
                ELSE [call EXCEPT !.pc = "lookup"]
  /\ UNCHANGED ServerVars

\* blockchain.getBlock(hash) settles, with the block, with a NotFoundError
\* or with another error, which _getHeaderByHash throws on; validate() runs
\* to its end
GetHeaderSettles(outcome) ==
  /\ call.op = "validate"
  /\ call.pc = "lookup"
  /\ call' = [call EXCEPT !.pc = "done", !.lookup = outcome,
                !.ret = IF outcome = "error" THEN "blockchain error"
                        ELSE validateParent(call.common, call.header,
                               IF outcome = "found" THEN call.parent ELSE NoHeader,
                               call.height)]
  /\ UNCHANGED ServerVars

NextValidate ==
  \/ ValidateCall
  \/ \E o \in {"found", "NotFoundError", "error"} : GetHeaderSettles(o)
SpecValidate == InitValidate /\ [][NextValidate]_vars

\* --------------------------------------------------------------- bytes
\* A Buffer is a sequence of bytes.  In the header codec a BN is kept as its
\* digits in base 256, the first one not zero (the BN zero has no digit).

\* unpadBuffer(b): b without its leading zero bytes
RECURSIVE unpadBuffer(_)
unpadBuffer(b) ==
  IF Len(b) > 0 /\ b[1] = 0 THEN unpadBuffer(SubSeq(b, 2, Len(b))) ELSE b

\* new BN(buffer): the number the bytes are, big-endian
bnFromBuffer(b) == unpadBuffer(b)

\* toBuffer(bn), bn.toArrayLike(Buffer): the digits, one zero byte for zero
bnToBuffer(bn) == IF Len(bn) = 0 THEN << 0 >> ELSE bn

bnIsZero(bn) == Len(bn) = 0

\* bn.toNumber(), for a BN below 2^31
RECURSIVE bnToNumber(_)
bnToNumber(bn) ==
  IF Len(bn) = 0 THEN 0
  ELSE bnToNumber(SubSeq(bn, 1, Len(bn) - 1)) * 256 + bn[Len(bn)]

\* new BN(n) for a number n >= 0
RECURSIVE bnOfNumber(_)
bnOfNumber(n) == IF n = 0 THEN << >> ELSE Append(bnOfNumber(n \div 256), n % 256)

\* ----------------------------------------------------------------- rlp
\* the bytes of a length, big-endian without leading zero
intToBytes(n) == bnOfNumber(n)

\* encodeLength(len, offset)
encodeLength(len, offset) ==
  IF len < 56 THEN << len + offset >>
  ELSE << offset + 55 + Len(intToBytes(len)) >> \o intToBytes(len)

\* rlp.encode of a Buffer
rlpEncodeBuffer(b) ==
  IF Len(b) = 1 /\ b[1] < 128 THEN b ELSE encodeLength(Len(b), 128) \o b

RECURSIVE rlpConcat(_)
rlpConcat(items) ==
  IF Len(items) = 0 THEN << >>
  ELSE rlpEncodeBuffer(items[1]) \o rlpConcat(SubSeq(items, 2, Len(items)))

\* rlp.encode of an array of Buffers
rlpEncodeList(items) ==
  LET output == rlpConcat(items) IN encodeLength(Len(output), 192) \o output

\* input.slice(from, to) with 0-based from and exclusive to, as Buffer.slice
slice(b, from, to) ==
  LET t == IF to > Len(b) THEN Len(b) ELSE to
  IN IF from >= t THEN << >> ELSE SubSeq(b, from + 1, t)

\* _decode(input) for an input that starts with a Buffer item:
\* [err, data, remainder]
rlpDecodeItem(input) ==
  LET firstByte == input[1] IN
  IF firstByte <= 127
    THEN [err |-> "", data |-> slice(input, 0, 1), remainder |-> slice(input, 1, Len(input))]
  ELSE IF firstByte <= 183
    THEN LET length == firstByte - 127
             data == IF firstByte = 128 THEN << >> ELSE slice(input, 1, length)
         IN IF length = 2 /\ Len(data) > 0 /\ data[1] < 128
              THEN [err |-> "invalid rlp encoding: byte must be less 0x80",
                    data |-> << >>, remainder |-> << >>]
              ELSE [err |-> "", data |-> data,
                    remainder |-> slice(input, length, Len(input))]
  ELSE IF firstByte <= 191
    THEN LET llength == firstByte - 182
             length == bnToNumber(slice(input, 1, llength))
             data == slice(input, llength, length + llength)
         IN IF Len(data) < length
              THEN [err |-> "invalid RLP", data |-> << >>, remainder |-> << >>]
              ELSE [err |-> "", data |-> data,
                    remainder |-> slice(input, length + llength, Len(input))]
  ELSE [err |-> "nested list", data |-> << >>, remainder |-> << >>]

\* the items of innerRemainder, decoded one after the other
RECURSIVE rlpDecodeItems(_)
rlpDecodeItems(inner) ==
  IF Len(inner) = 0 THEN [err |-> "", items |-> << >>]
  ELSE LET d == rlpDecodeItem(inner)
       IN IF d.err # "" THEN [err |-> d.err, items |-> << >>]
          ELSE LET rest == rlpDecodeItems(d.remainder)
               IN IF rest.err # "" THEN rest
                  ELSE [err |-> "", items |-> << d.data >> \o rest.items]

\* rlp.decode(input): [err, isArray, items] (items of an array), an input
\* that is one Buffer giving isArray = FALSE
rlpDecode(input) ==
  LET firstByte == input[1] IN
  IF Len(input) = 0 THEN [err |-> "", isArray |-> FALSE, items |-> << >>]
  ELSE IF firstByte <= 191
    THEN LET d == rlpDecodeItem(input)
         IN IF d.err # "" THEN [err |-> d.err, isArray |-> FALSE, items |-> << >>]
            ELSE IF Len(d.remainder) # 0
              THEN [err |-> "invalid remainder", isArray |-> FALSE, items |-> << >>]
            ELSE [err |-> "", isArray |-> FALSE, items |-> << >>]
  ELSE
    LET short == firstByte <= 247
        llength == IF short THEN 1 ELSE firstByte - 246
        length == IF short THEN firstByte - 192
                  ELSE bnToNumber(slice(input, 1, llength))
        totalLength == llength + length
        inner == slice(input, llength, totalLength)
        d == rlpDecodeItems(inner)
    IN IF ~short /\ totalLength > Len(input)
         THEN [err |-> "invalid rlp: total length is larger than the data",
               isArray |-> TRUE, items |-> << >>]
       ELSE IF ~short /\ Len(inner) = 0
         THEN [err |-> "invalid rlp, List has a invalid length",
               isArray |-> TRUE, items |-> << >>]
       ELSE IF d.err # "" THEN [err |-> d.err, isArray |-> TRUE, items |-> << >>]
       ELSE IF Len(slice(input, totalLength, Len(input))) # 0
         THEN [err |-> "invalid remainder", isArray |-> TRUE, items |-> << >>]
       ELSE [err |-> "", isArray |-> TRUE, items |-> d.items]

\* -------------------------------------------------- header construction
\* the fields of a header, in the order of raw() and of fromValuesArray
FieldOrder ==
  << "parentHash", "uncleHash", "coinbase", "stateRoot", "transactionsTrie",
     "receiptTrie", "bloom", "difficulty", "number", "gasLimit", "gasUsed",
     "timestamp", "extraData", "mixHash", "nonce" >>
FieldNames == { FieldOrder[i] : i \in 1..Len(FieldOrder) }

fill(n, b) == [i \in 1..n |-> b]
KECCAK256_RLP == fill(32, 86)
DEFAULT_GAS_LIMIT == bnFromBuffer(fill(7, 255))

\* a field headerData leaves out
Absent == << -1 >>

\* the BN a pair << hi, lo >> is, in digits of base 256
RECURSIVE bnDigits(_)
bnDigits(x) ==
  IF x = << 0, 0 >> THEN << >>
  ELSE LET q == bnDivn(x, 256)
       IN Append(bnDigits(q), bnSub(x, bnMuln(q, 256))[2])
\* Common.activeHardfork(number): the last hardfork of the chain whose block
\* is not above number
activeHardfork(common, number) ==
  LET i == CHOOSE k \in 1..Len(common.forks) :
              /\ common.forks[k].block <= number
              /\ \A j \in 1..Len(common.forks) :
                    common.forks[j].block <= number => j <= k
  IN common.forks[i].name
hardforkIsActiveOnChain(common, hf) ==
  \E k \in 1..Len(common.forks) : common.forks[k].name = hf
hardforkBlock(common, hf) ==
  common.forks[CHOOSE k \in 1..Len(common.forks) : common.forks[k].name = hf].block

\* _validateHeaderFields(): the error thrown, "" when none is
validateHeaderFields(h) ==
  IF Len(h.parentHash) # 32 THEN "parentHash must be 32 bytes"
  ELSE IF Len(h.stateRoot) # 32 THEN "stateRoot must be 32 bytes"
  ELSE IF Len(h.transactionsTrie) # 32 THEN "transactionsTrie must be 32 bytes"
  ELSE IF Len(h.receiptTrie) # 32 THEN "receiptTrie must be 32 bytes"
  ELSE IF Len(h.mixHash) # 32 THEN "mixHash must be 32 bytes"
  ELSE IF Len(h.nonce) # 8 THEN "nonce must be 8 bytes"
  ELSE ""

\* _checkDAOExtraData(): the error thrown, "" when none is
DAO_ExtraData == << 100, 97, 111, 45, 104, 97, 114, 100, 45, 102, 111, 114, 107 >>
DAO_ForceExtraDataRange == 9
checkDAOExtraDataMut(common, h) ==
  IF hardforkIsActiveOnChain(common, "dao")
     /\ bnToNumber(h.number) >= hardforkBlock(common, "dao")
     /\ bnToNumber(h.number) - hardforkBlock(common, "dao") < DAO_ForceExtraDataRange
     /\ h.extraData # DAO_ExtraData
    THEN "extraData should be 'dao-hard-fork'"
    ELSE ""

checkDAOExtraData(common, h) ==
  IF hardforkIsActiveOnChain(common, "dao")
     /\ bnToNumber(h.number) >= hardforkBlock(common, "dao")
     /\ bnToNumber(h.number) - hardforkBlock(common, "dao") <= DAO_ForceExtraDataRange
     /\ h.extraData # DAO_ExtraData
    THEN "extraData should be 'dao-hard-fork'"
    ELSE ""

\* new BlockHeader(...fields, options): [err] when it throws, else
\* [err, header, hardfork], hardfork being the one its Common is left on
BlockHeaderNew(fields, options) ==
  LET common == options.common
      hf == IF options.hardforkByBlockNumber
              THEN activeHardfork(common, bnToNumber(fields.number))
              ELSE common.hardfork
      g == common.genesis
      h == IF options.initWithGenesisHeader
             THEN [fields EXCEPT
                     !.number = bnOfNumber(0),
                     !.gasLimit = IF @ = DEFAULT_GAS_LIMIT
                                    THEN bnFromBuffer(g.gasLimit) ELSE @,
                     !.timestamp = IF bnIsZero(@) THEN bnFromBuffer(g.timestamp) ELSE @,
                     !.difficulty = IF bnIsZero(@) THEN bnFromBuffer(g.difficulty) ELSE @,
                     !.extraData = IF Len(@) = 0 THEN g.extraData ELSE @,
                     !.nonce = IF @ = zeros(8) THEN g.nonce ELSE @,
                     !.stateRoot = IF @ = zeros(32) THEN g.stateRoot ELSE @]
             ELSE fields
      cd == canonicalDifficulty(common, hf, bnToNumber(h.number), bnToNumber(h.timestamp),
               options.parent.timestamp, options.parent.difficulty,
               options.parent.uncleHash)
  IN IF options.initWithGenesisHeader /\ hf # "chainstart"
       THEN [err |-> "Genesis parameters can only be set with a Common instance set to chainstart"]
     ELSE IF validateHeaderFields(h) # "" THEN [err |-> validateHeaderFields(h)]
     ELSE IF checkDAOExtraData(common, h) # "" THEN [err |-> checkDAOExtraData(common, h)]
     ELSE IF options.calcDifficultyFromHeader /\ cd.err # "" THEN [err |-> cd.err]
     ELSE [err |-> "",
           header |-> IF options.calcDifficultyFromHeader
                        THEN [h EXCEPT !.difficulty = bnDigits(cd.dif)] ELSE h,
           hardfork |-> hf]

\* the value at position i of a values array: toBuffer(undefined) is the
\* empty Buffer
valueAt(values, i) == IF i <= Len(values) THEN values[i] ELSE << >>

\* BlockHeader.fromValuesArray(values, opts); new Address(buf) throws
\* unless buf has 20 bytes
fromValuesArray(values, options) ==
  IF Len(values) > 15
    THEN [err |-> "invalid header. More values than expected were received"]
  ELSE IF Len(valueAt(values, 3)) # 20 THEN [err |-> "Invalid address length"]
  ELSE BlockHeaderNew(
         [parentHash |-> valueAt(values, 1), uncleHash |-> valueAt(values, 2),
          coinbase |-> valueAt(values, 3), stateRoot |-> valueAt(values, 4),
          transactionsTrie |-> valueAt(values, 5), receiptTrie |-> valueAt(values, 6),
          bloom |-> valueAt(values, 7),
          difficulty |-> bnFromBuffer(valueAt(values, 8)),
          number |-> bnFromBuffer(valueAt(values, 9)),
          gasLimit |-> bnFromBuffer(valueAt(values, 10)),
          gasUsed |-> bnFromBuffer(valueAt(values, 11)),
          timestamp |-> bnFromBuffer(valueAt(values, 12)),
          extraData |-> valueAt(values, 13), mixHash |-> valueAt(values, 14),
          nonce |-> valueAt(values, 15)],
         options)

\* BlockHeader.fromRLPSerializedHeader(serialized, opts)
fromRLPSerializedHeader(serialized, options) ==
  LET values == rlpDecode(serialized)
  IN IF values.err # "" THEN [err |-> values.err]
     ELSE IF ~values.isArray
       THEN [err |-> "Invalid serialized header input. Must be array"]
     ELSE fromValuesArray(values.items, options)

\* BlockHeader.fromHeaderData(headerData, opts), headerData giving Buffers
fromHeaderData(data, options) ==
  LET or(name, default) == IF data[name] # Absent THEN data[name] ELSE default
      bn(name, default) ==
        IF data[name] # Absent THEN bnFromBuffer(data[name]) ELSE default
  IN IF Len(or("coinbase", zeros(20))) # 20 THEN [err |-> "Invalid address length"]
     ELSE BlockHeaderNew(
         [parentHash |-> or("parentHash", zeros(32)),
          uncleHash |-> or("uncleHash", KECCAK256_RLP_ARRAY),
          coinbase |-> or("coinbase", zeros(20)),
          stateRoot |-> or("stateRoot", zeros(32)),
          transactionsTrie |-> or("transactionsTrie", KECCAK256_RLP),
          receiptTrie |-> or("receiptTrie", KECCAK256_RLP),
          bloom |-> or("bloom", zeros(256)),
          difficulty |-> bn("difficulty", bnOfNumber(0)),
          number |-> bn("number", bnOfNumber(0)),
          gasLimit |-> bn("gasLimit", DEFAULT_GAS_LIMIT),
          gasUsed |-> bn("gasUsed", bnOfNumber(0)),
          timestamp |-> bn("timestamp", bnOfNumber(0)),
          extraData |-> or("extraData", << >>),
          mixHash |-> or("mixHash", zeros(32)),
          nonce |-> or("nonce", zeros(8))],
         options)

\* raw()
rawMut(h) ==
  << h.parentHash, h.uncleHash, h.coinbase, h.stateRoot, h.transactionsTrie,
     h.receiptTrie, h.bloom,
     bnToBuffer(h.difficulty), bnToBuffer(h.number),
     bnToBuffer(h.gasLimit), bnToBuffer(h.gasUsed),
     bnToBuffer(h.timestamp),
     h.extraData, h.mixHash, h.nonce >>

raw(h) ==
  << h.parentHash, h.uncleHash, h.coinbase, h.stateRoot, h.transactionsTrie,
     h.receiptTrie, h.bloom,
     unpadBuffer(bnToBuffer(h.difficulty)), unpadBuffer(bnToBuffer(h.number)),
     unpadBuffer(bnToBuffer(h.gasLimit)), unpadBuffer(bnToBuffer(h.gasUsed)),
     unpadBuffer(bnToBuffer(h.timestamp)),
     h.extraData, h.mixHash, h.nonce >>

\* serialize()
serialize(h) == rlpEncodeList(raw(h))

MaxBlockNumber == 16   \* block numbers 0..MaxBlockNumber, besides those around mainnet's dao block

\* the genesis block of the chains below
Genesis ==
  [gasLimit |-> << 19, 136 >>, timestamp |-> << >>, difficulty |-> << 4, 0, 0, 0, 0 >>,
   extraData |-> fill(32, 17), nonce |-> << 0, 0, 0, 0, 0, 0, 0, 66 >>,
   stateRoot |-> fill(32, 215)]

\* mainnet; a PoW chain whose dao hardfork is at block 5; a clique chain
\* without a dao hardfork.  hardfork is the one the Common is set on.
Chains ==
  { [consensusType |-> "pow", consensusAlgorithm |-> "ethash",
     minimumDifficulty |-> 131072, difficultyBoundDivisor |-> 2048, durationLimit |-> 13,
     genesis |-> Genesis, hardfork |-> hf,
     forks |-> << [name |-> "chainstart", block |-> 0],
                  [name |-> "homestead", block |-> 1150000],
                  [name |-> "dao", block |-> 1920000],
                  [name |-> "tangerineWhistle", block |-> 2463000],
                  [name |-> "spuriousDragon", block |-> 2675000],
                  [name |-> "byzantium", block |-> 4370000] >>] : hf \in {"chainstart", "byzantium"} }
  \cup
  { [consensusType |-> "pow", consensusAlgorithm |-> "ethash",
     minimumDifficulty |-> 131072, difficultyBoundDivisor |-> 2048, durationLimit |-> 13,
     genesis |-> Genesis, hardfork |-> hf,
     forks |-> << [name |-> "chainstart", block |-> 0],
                  [name |-> "homestead", block |-> 2],
                  [name |-> "dao", block |-> 5],
                  [name |-> "byzantium", block |-> 20] >>] : hf \in {"chainstart", "byzantium"} }
  \cup
  { [consensusType |-> "poa", consensusAlgorithm |-> "clique",
     minimumDifficulty |-> 131072, difficultyBoundDivisor |-> 2048, durationLimit |-> 13,
     genesis |-> Genesis, hardfork |-> hf,
     forks |-> << [name |-> "chainstart", block |-> 0],
                  [name |-> "homestead", block |-> 1],
                  [name |-> "byzantium", block |-> 3] >>] : hf \in {"chainstart", "byzantium"} }

\* BlockOptions; parent is the header of calcDifficultyFromHeader
HeaderOptions ==
  { [common |-> c, initWithGenesisHeader |-> g, hardforkByBlockNumber |-> b,
     calcDifficultyFromHeader |-> d,
     parent |-> [timestamp |-> 999990, difficulty |-> bnFromInt(1000000),
                 uncleHash |-> KECCAK256_RLP_ARRAY]] :
      c \in Chains, g \in BOOLEAN, b \in BOOLEAN, d \in BOOLEAN }

\* a header's values as a peer sends them, all of the right width
BaseValues ==
  << fill(32, 1), KECCAK256_RLP_ARRAY, fill(20, 3), fill(32, 4), fill(32, 5),
     fill(32, 6), zeros(256), << 1, 0, 0 >>, << 1 >>, << 19, 136 >>, << >>,
     << 15, 66, 64 >>, << >>, zeros(32), zeros(8) >>

\* the values tried for field i: other widths for a Buffer of fixed width,
\* other notations and sizes for a number
NumericFields == 8..12
TriedValues(i) ==
  IF i \in NumericFields
    THEN { << >>, << 0 >>, << 0, 1 >>, << 128 >>, << 255, 255 >> }
         \cup (IF i = 10 THEN { fill(7, 255) } ELSE {})
  ELSE { << >>, << 7 >>, fill(8, 0), fill(19, 2), fill(20, 0), fill(31, 2), fill(32, 0),
         fill(33, 2), fill(255, 0), fill(256, 1) }

BlockNumberInputs ==
  { bnOfNumber(n) : n \in (0..MaxBlockNumber)
                          \cup {1919999, 1920000, 1920005, 1920009, 1920010} }
ExtraDataInputs == { << >>, DAO_ExtraData, fill(13, 100), DAO_ExtraData \o << 0 >> }

\* the values arrays tried: one field changed, or the number and the
\* extraData chosen, or a value short or a value too many
ValuesInputs ==
  UNION { { [BaseValues EXCEPT ![i] = v] : v \in TriedValues(i) } : i \in 1..15 }
  \cup { [BaseValues EXCEPT ![9] = n, ![13] = x] :
            n \in BlockNumberInputs, x \in ExtraDataInputs }
  \cup { SubSeq(BaseValues, 1, 14), Append(BaseValues, << >>) }

\* the headerData tried: one field given, or the number and the extraData
\* given, or all fields given
NoHeaderData == [name \in FieldNames |-> Absent]
HeaderDataInputs ==
  UNION { { [NoHeaderData EXCEPT ![FieldOrder[i]] = v] : v \in TriedValues(i) } : i \in 1..15 }
  \cup { [NoHeaderData EXCEPT !.number = n, !.extraData = x] :
            n \in BlockNumberInputs, x \in ExtraDataInputs }
  \cup { [name \in FieldNames |->
            BaseValues[CHOOSE i \in 1..15 : FieldOrder[i] = name]] }

\* the serialized headers tried: the values arrays encoded, an encoded
\* Buffer, and an encoded array with a byte after it
SerializedInputs ==
  { rlpEncodeList(v) : v \in ValuesInputs }
  \cup { rlpEncodeBuffer(<< 1, 2, 3 >>), rlpEncodeList(BaseValues) \o << 0 >> }

InitHeader ==
  /\ ServerIdle
  /\ \E o \in HeaderOptions :
        \/ \E v \in ValuesInputs :
              call = [op |-> "header", via |-> "fromValuesArray", input |-> v,
                      options |-> o, pc |-> "start", res |-> [err |-> ""],
                      raw |-> << >>, back |-> [err |-> ""], backRaw |-> << >>]
        \/ \E d \in HeaderDataInputs :
              call = [op |-> "header", via |-> "fromHeaderData", input |-> d,
                      options |-> o, pc |-> "start", res |-> [err |-> ""],
                      raw |-> << >>, back |-> [err |-> ""], backRaw |-> << >>]
        \/ \E b \in SerializedInputs :
              call = [op |-> "header", via |-> "fromRLPSerializedHeader", input |-> b,
                      options |-> o, pc |-> "start", res |-> [err |-> ""],
                      raw |-> << >>, back |-> [err |-> ""], backRaw |-> << >>]

\* one of the three static constructors runs
Construct ==
  /\ call.op = "header"
  /\ call.pc = "start"
  /\ LET r == IF call.via = "fromValuesArray"
                THEN fromValuesArray(call.input, call.options)
              ELSE IF call.via = "fromHeaderData"
                THEN fromHeaderData(call.input, call.options)
              ELSE fromRLPSerializedHeader(call.input, call.options)
     IN call' = [call EXCEPT !.res = r,
                             !.pc = IF r.err = "" THEN "built" ELSE "failed"]
  /\ UNCHANGED ServerVars

\* header.raw(), header.serialize(), and the serialization decoded with the
\* same options, the Common staying on the hardfork the construction left
RoundTrip ==
  /\ call.op = "header"
  /\ call.pc = "built"
  /\ LET h == call.res.header
         o == [call.options EXCEPT !.common.hardfork = call.res.hardfork]
         d == fromRLPSerializedHeader(serialize(h), o)
     IN call' = [call EXCEPT !.pc = "done", !.raw = raw(h), !.back = d,
                             !.backRaw = IF d.err = "" THEN raw(d.header) ELSE << >>]
  /\ UNCHANGED ServerVars

NextHeader == Construct \/ RoundTrip
SpecHeader == InitHeader /\ [][NextHeader]_vars

\* ================================================= TransactionFactory
\* the leading bytes tried, on both sides of 0x7f and of the known type
LeadingBytes == { 0, 1, 2, 3, 126, 127, 128, 129, 192, 201, 248, 255 }
\* the raw data tried: no byte at all, or a leading byte and a rest
RawDataInputs ==
  { << >> } \cup { << b >> \o rest : b \in LeadingBytes, rest \in { << >>, << 192 >>, << 1, 128 >> } }
\* common.eips(): the EIPs the Common was constructed with
EipSets == SUBSET { 2718, 2929, 2930 }

\* TransactionFactory.fromRawData(rawData, { common }): the error thrown or
\* the decoder the bytes are handed to.  rawData[0] of an empty Buffer is
\* undefined, and undefined <= 0x7f is false.
fromRawDataMut(rawData, eips) ==
  IF Len(rawData) > 0 /\ rawData[1] < 127
    THEN IF 2718 \notin eips
           THEN "Cannot create a TypedTransaction: EIP-2718 is not enabled"
         ELSE IF rawData[1] # 1 THEN "TypedTransaction with ID unknown"
         ELSE IF 2930 \notin eips
           THEN "Cannot create TypedTransaction: EIP 2930 not activated"
         ELSE "UnsignedEIP2930Transaction.fromRlpSerializedTx"
    ELSE "UnsignedLegacyTransaction.fromRlpSerializedTx"

fromRawData(rawData, eips) ==
  IF Len(rawData) > 0 /\ rawData[1] <= 127
    THEN IF 2718 \notin eips
           THEN "Cannot create a TypedTransaction: EIP-2718 is not enabled"
         ELSE IF rawData[1] # 1 THEN "TypedTransaction with ID unknown"
         ELSE IF 2930 \notin eips
           THEN "Cannot create TypedTransaction: EIP 2930 not activated"
         ELSE "UnsignedEIP2930Transaction.fromRlpSerializedTx"
    ELSE "UnsignedLegacyTransaction.fromRlpSerializedTx"

InitTx ==
  /\ ServerIdle
  /\ \E d \in RawDataInputs, e \in EipSets :
        call = [op |-> "tx", rawData |-> d, eips |-> e, pc |-> "start", ret |-> "-"]

FromRawData ==
  /\ call.op = "tx"
  /\ call.pc = "start"
  /\ call' = [call EXCEPT !.pc = "done", !.ret = fromRawData(call.rawData, call.eips)]
  /\ UNCHANGED ServerVars

NextTx == FromRawData
SpecTx == InitTx /\ [][NextTx]_vars

\* ================================================================ claims
InFlight == { i \in 1..Len(starts) : starts[i].pc # "done" }
LiveDpt == { d \in 1..Len(dpts) : ~dpts[d].destroyed }
Pending(id) == { h \in handlers : h.id = id }

\* C1: for every peer id the emitted events alternate, connected first: a
\* disconnected only after a connected, and no two connected without a
\* disconnected in between.
C1_EventsAlternate ==
  \A id \in PeerIds : \A k \in 1..Len(peerLog[id]) :
     peerLog[id][k].ev = IF k % 2 = 1 THEN "connected" ELSE "disconnected"

\* C2: once the multiplexer has reported peer:removed for the last session
\* of an id and no peer:added handler of that id is still pending, the
\* registry holds no record for the id.
C2_NoRecordAfterRemoval ==
  \A id \in PeerIds :
     (sessions[id].n > 0 /\ ~sessions[id].open /\ Pending(id) = {})
        => peers[id] = 0

\* C3: start() is not re-entrant: at most one start() is past the guard and
\* unfinished, and at most one DPT and one RLPx are live.
C3_NotReentrant ==
  /\ Cardinality(InFlight) <= 1
  /\ Cardinality(LiveDpt) <= 1
  /\ Cardinality(LiveRlpx) <= 1

\* C4: start() on a started server, and stop() and ban() on a server that is
\* not started, return false and leave the lifecycle state, the DPTs and the
\* RLPxs as they are; ban(id, maxAge) on a started server returns true and
\* adds exactly one banPeer(id, maxAge) to the current DPT, maxAge being
\* 60000 when omitted.
ServerUnchanged ==
  UNCHANGED << started, dpt, rlpx, dpts, rlpxs, starts, stops >>

C4_WrongStateNoOp ==
  [][ /\ (lastOp'.op = "start" /\ started)
          => (lastOp'.ret = "false" /\ ServerUnchanged)
      /\ (lastOp'.op = "stop" /\ ~started)
          => (lastOp'.ret = "false" /\ ServerUnchanged)
      /\ (lastOp'.op = "ban" /\ ~started)
          => (lastOp'.ret = "false" /\ ServerUnchanged)
      /\ (lastOp'.op = "ban" /\ started)
          => /\ lastOp'.ret = "true"
             /\ dpts' = [dpts EXCEPT ![dpt].bans =
                   Append(@, [id |-> lastOp'.id,
                              maxAge |-> IF lastOp'.n = 0 THEN 60000 ELSE lastOp'.n])]
             /\ UNCHANGED << started, dpt, rlpx, rlpxs, starts, stops >>
    ]_vars

\* ban() has returned false on a server that is not started although a live
\* DPT exists
C4_Witness ==
  /\ lastOp.op = "ban"
  /\ lastOp.ret = "false"
  /\ ~started
  /\ dpt # 0
  /\ ~dpts[dpt].destroyed
  /\ dpts[dpt].bans = << >>

\* C5: when a stop() call has returned or thrown and no start() is in
\* flight, every DPT and RLPx that was constructed has been destroyed.
C5_AllReleased ==
  (lastOp.op \in {"stop", "stop:done"} /\ lastOp.ret # "-" /\ InFlight = {})
     => (LiveDpt = {} /\ LiveRlpx = {})

\* C6: a peer:added handler that was suspended in accept() when stop()
\* resolved neither inserts a record nor emits connected afterwards.
C6_StopCancels ==
  [][ (/\ lastOp'.op = "accept"
       /\ lastOp'.ret = "ok"
       /\ [id |-> lastOp'.id, sess |-> lastOp'.n, atStop |-> TRUE] \in handlers)
         => (peers' = peers /\ peerLog' = peerLog) ]_vars

\* C7: for every start() that resolved true and has been followed by a
\* stop(), the server emitted listening exactly once for it.
C7_ListeningOnce ==
  \A i \in 1..Len(starts) :
     (starts[i].ret = "true" /\ rlpxs[starts[i].rlpx].destroyed)
        => rlpxs[starts[i].rlpx].listening = 1

\* C8: a start() that reached bootstrap resolves true with started set, and
\* once all its bootnodes have settled, the failure of every failing
\* bootnode has been passed to error().
C8_BootstrapSurfaced ==
  /\ (lastOp.op \in {"start:init", "bootstrap"} /\ lastOp.ret = "true") => started
  /\ \A i \in 1..Len(starts) :
        (starts[i].pc = "done" /\ starts[i].rlpx # 0 /\ starts[i].pending = {})
           => (starts[i].ret = "true" /\ starts[i].failed \subseteq starts[i].routed)

\* C9: routing a transport error changes neither the lifecycle state nor
\* the registry and emits at most one error event: none for a message with
\* an ignored pattern in it, else exactly one, on the peer record when the
\* error is a peer:error whose handle has an id in the registry, and on the
\* server otherwise.
IgnoredMessages ==
  { <<"read", "ECONNRESET">>,
    <<"peer", "Invalid", "MAC", "received">>,
    <<"Handshake", "timed", "out">> }

C9_ErrorRouting ==
  [][ (\/ lastOp'.op \in {"peer:error", "rlpx:error", "dpt:error"}
       \/ (lastOp'.op = "accept" /\ lastOp'.ret = "throw"))
      => LET m == lastOp'.msg
             id == lastOp'.id
             known == lastOp'.op = "peer:error" /\ id \in PeerIds /\ peers[id] # 0
         IN /\ UNCHANGED << started, dpt, rlpx, dpts, rlpxs, starts, stops,
                            peers, sessions, peerLog >>
            /\ IF m \in IgnoredMessages
                 THEN errLog' = errLog
                 ELSE IF known
                 THEN errLog' = Append(errLog,
                         [on |-> [id |-> id, sess |-> peers[id]], msg |-> m])
                 ELSE errLog' = Append(errLog, [on |-> ServerSink, msg |-> m])
    ]_vars

\* a peer:error for a peer in the registry has been emitted on its record
C9_Witness ==
  /\ lastOp.op = "peer:error"
  /\ lastOp.id \in PeerIds
  /\ errLog # << >>
  /\ errLog[Len(errLog)].on.id = lastOp.id
  /\ errLog[Len(errLog)].msg = lastOp.msg

\* C10: peer:removed for an id that is not in the registry changes neither
\* the registry nor the emitted events; for an id that is in it, exactly
\* that entry goes, all others stay, and one disconnected with the removed
\* record is emitted.
C10_PeerRemoved ==
  [][ lastOp'.op = "peer:removed"
      => LET id == lastOp'.id
         IN IF peers[id] = 0
              THEN peers' = peers /\ peerLog' = peerLog
              ELSE /\ peers' = [peers EXCEPT ![id] = 0]
                   /\ peerLog' = [peerLog EXCEPT ![id] =
                         Append(@, [ev |-> "disconnected", sess |-> peers[id]])]
    ]_vars

\* a record has just been removed while the record of another peer stays
C10_Witness ==
  /\ lastOp.op = "peer:removed"
  /\ lastOp.id \in PeerIds
  /\ peers[lastOp.id] = 0
  /\ peerLog[lastOp.id] # << >>
  /\ peerLog[lastOp.id][Len(peerLog[lastOp.id])].ev = "disconnected"
  /\ \E other \in PeerIds : other # lastOp.id /\ peers[other] # 0
\* C19: in every started server the current DPT and the current RLPx were
\* constructed with the same local secret.
C19_SameSecret ==
  (started /\ dpt # 0 /\ rlpx # 0) => dpts[dpt].privateKey = rlpxs[rlpx].privateKey
Max(a, b) == IF a >= b THEN a ELSE b
PreHomestead == { "chainstart" }
FromHomestead == { "homestead", "dao", "tangerineWhistle", "spuriousDragon" }
FromByzantium == { "byzantium" }
FromConstantinople == { "constantinople", "petersburg", "istanbul" }
FromMuirGlacier == { "muirGlacier", "berlin" }

ReferenceDifficulty ==
  LET hf == call.hardfork
      pd == call.parent.difficulty
      dt == call.timestamp - call.parent.timestamp
      bound == bnDivn(pd, call.common.difficultyBoundDivisor)
      uncleAddend == IF call.parent.uncleHash = KECCAK256_RLP_ARRAY THEN 1 ELSE 2
      base == IF hf \in PreHomestead
                THEN IF call.parent.timestamp + call.common.durationLimit > call.timestamp
                       THEN bnAdd(pd, bound) ELSE bnSub(pd, bound)
              ELSE IF hf \in FromHomestead
                THEN bnAdd(pd, bnMuln(bound, Max(-99, 1 - (dt \div 10))))
              ELSE bnAdd(pd, bnMuln(bound, Max(-99, uncleAddend - (dt \div 9))))
      delay == IF hf \in FromMuirGlacier THEN 9000000
               ELSE IF hf \in FromConstantinople THEN 5000000
               ELSE IF hf \in FromByzantium THEN 3000000 ELSE 0
      exp == (Max(0, call.number - delay) \div 100000) - 2
      bombed == IF exp >= 0 THEN bnAdd(base, bnPow2(exp)) ELSE base
      minDiff == bnFromInt(call.common.minimumDifficulty)
  IN IF bnLt(bombed, minDiff) THEN minDiff ELSE bombed

ScenarioS1 ==
  /\ call.op = "canonicalDifficulty"
  /\ call.hardfork = "byzantium"
  /\ call.common.difficultyBoundDivisor = 2048
  /\ call.common.minimumDifficulty = 131072
  /\ call.number = 5000001
  /\ call.timestamp = 1000009
  /\ call.parent = [timestamp |-> 1000000, uncleHash |-> KECCAK256_RLP_ARRAY,
                    difficulty |-> bnDecimal(<< 1, 0, 0, 0, 0 >>)]

C13_CanonicalDifficulty ==
  (call.op = "canonicalDifficulty" /\ call.done) =>
     /\ call.ret.err = ""
     /\ call.ret.dif = ReferenceDifficulty
     /\ ~bnLt(call.ret.dif, bnFromInt(call.common.minimumDifficulty))
     /\ ScenarioS1 => call.ret.dif = bnDecimal(<< 1, 0, 0, 262, 144 >>)

\* scenario S1 has been computed
C13_Witness == ScenarioS1 /\ call.done /\ call.ret.dif = << 953674, 593920 >>
\* ---- validate(): what the claims C11 and C12 speak of
ValidateDone == call.op = "validate" /\ call.pc = "done"
\* the extra-data step has passed: validate() went on to the parent lookup
ExtraDataPassed == call.pc = "lookup" \/ call.lookup # "-"
ExtraDataErrors ==
  { "invalid amount of extra data",
    "extraData must be 97 bytes on non-epoch transition blocks",
    "invalid signer list length in extraData",
    "coinbase must be filled with zeros on epoch transition blocks",
    "mixHash must be filled with zeros" }
IsZeros(b) == \A i \in 1..Len(b) : b[i] = 0

\* the extra-data condition as the spec words it
ExtraDataHoldsAsWorded ==
  LET c == call.common
      h == call.header
      len == Len(h.extraData)
  IN IF c.consensusAlgorithm = "clique"
       THEN IF h.number % c.epoch = 0
              THEN (len - 97) % 20 = 0 /\ IsZeros(h.coinbase) /\ IsZeros(h.mixHash)
              ELSE len = 97
       ELSE len <= c.maxExtraDataSize

\* the extra-data condition with mixHash zero on every clique header
ExtraDataHolds ==
  LET c == call.common
      h == call.header
      len == Len(h.extraData)
  IN IF c.consensusAlgorithm = "clique"
       THEN IF h.number % c.epoch = 0
              THEN (len - 97) % 20 = 0 /\ IsZeros(h.coinbase) /\ IsZeros(h.mixHash)
              ELSE len = 97 /\ IsZeros(h.mixHash)
       ELSE len <= c.maxExtraDataSize

\* C11: validate() on a genesis header succeeds without a check or a parent
\* lookup; on another header it fails with the error of the first of the
\* eight checks, in their order, that does not hold, and succeeds iff all
\* hold; timestamp = parent.timestamp fails with the invalid-timestamp
\* error; the difficulty check is skipped unless the consensus type is PoW.
FirstFailure ==
  LET c == call.common
      h == call.header
      p == call.parent
      a == p.gasLimit \div c.gasLimitBoundDivisor
      canon == canonicalDifficulty(c, c.hardfork, h.number, h.timestamp, p.timestamp,
                                   p.difficulty, p.uncleHash)
  IN IF ~ExtraDataHolds THEN "extra data"
     ELSE IF call.lookup = "NotFoundError" THEN "could not find parent header"
     ELSE IF call.lookup = "error" THEN "blockchain error"
     ELSE IF ~(h.number = p.number + 1) THEN "invalid number"
     ELSE IF ~(h.timestamp > p.timestamp) THEN "invalid timestamp"
     ELSE IF c.consensusAlgorithm = "clique" /\ ~(p.timestamp + c.period <= h.timestamp)
       THEN "invalid timestamp diff (lower than period)"
     ELSE IF c.consensusType = "pow" /\ ~(canon.dif = h.difficulty)
       THEN "invalid difficulty"
     ELSE IF ~(p.gasLimit - a < h.gasLimit /\ h.gasLimit < p.gasLimit + a
               /\ h.gasLimit >= c.minGasLimit)
       THEN "invalid gas limit"
     ELSE IF call.height # NoHeight
             /\ ~(1 < call.height - p.number /\ call.height - p.number < 8)
       THEN "uncle block has a parent that is too old or too young"
     ELSE "ok"

C11_ValidateOrder ==
  /\ (call.op = "validate" /\ call.pc # "start" /\ call.header.number = 0)
        => (call.pc = "done" /\ call.ret = "ok" /\ call.lookup = "-")
  /\ (ValidateDone /\ call.header.number # 0) =>
        /\ IF FirstFailure = "extra data"
             THEN call.ret \in ExtraDataErrors /\ call.lookup = "-"
             ELSE call.ret = FirstFailure /\ call.lookup # "-"
        /\ (/\ ExtraDataHolds
            /\ call.lookup = "found"
            /\ call.header.number = call.parent.number + 1
            /\ call.header.timestamp = call.parent.timestamp)
              => call.ret = "invalid timestamp"

\* a header whose number is right and whose timestamp equals its parent's
\* has failed with the invalid-timestamp error
C11_Witness ==
  /\ ValidateDone
  /\ call.lookup = "found"
  /\ call.header.number = call.parent.number + 1
  /\ call.header.timestamp = call.parent.timestamp
  /\ call.ret = "invalid timestamp"

\* C12: the extra-data step of validate() passes exactly when the
\* extra-data condition of the chain holds: on a clique chain len = 97 off
\* an epoch transition, and (len - 97) mod 20 = 0 with a zero coinbase and a
\* zero mixHash on one; on another chain len <= maxExtraDataSize.
C12_ExtraDataStep ==
  (call.op = "validate" /\ call.pc # "start" /\ call.header.number # 0)
     => (ExtraDataPassed <=> ExtraDataHoldsAsWorded)

\* C12 as amended: on a clique chain the mixHash must be 32 zero bytes off
\* an epoch transition too.
C12_ExtraDataStepAmended ==
  (call.op = "validate" /\ call.pc # "start" /\ call.header.number # 0)
     => (ExtraDataPassed <=> ExtraDataHolds)

\* scenario S2: an epoch-transition header with two signers has passed the
\* extra-data step
C12_Witness ==
  /\ call.op = "validate"
  /\ call.common.consensusAlgorithm = "clique"
  /\ call.header.number = 60000
  /\ Len(call.header.extraData) = 137
  /\ ExtraDataPassed

\* ---------------------------------------------------------------- C15
\* the fixed-width fields and their widths
FixedWidth ==
  [parentHash |-> 32, uncleHash |-> 32, stateRoot |-> 32, transactionsTrie |-> 32,
   receiptTrie |-> 32, mixHash |-> 32, coinbase |-> 20, bloom |-> 256, nonce |-> 8]
FixedWidthFields == DOMAIN FixedWidth
\* the error that names a field
WidthError ==
  [parentHash |-> "parentHash must be 32 bytes", uncleHash |-> "uncleHash must be 32 bytes",
   stateRoot |-> "stateRoot must be 32 bytes",
   transactionsTrie |-> "transactionsTrie must be 32 bytes",
   receiptTrie |-> "receiptTrie must be 32 bytes", mixHash |-> "mixHash must be 32 bytes",
   coinbase |-> "coinbase must be 20 bytes", bloom |-> "bloom must be 256 bytes",
   nonce |-> "nonce must be 8 bytes"]

HeaderBuilt == call.op = "header" /\ call.pc \in {"built", "done"}
HeaderFailed == call.op = "header" /\ call.pc = "failed"

\* the Buffer a construction attempt gives for a fixed-width field
GivenField(f) ==
  LET i == CHOOSE k \in 1..15 : FieldOrder[k] = f
  IN IF call.via = "fromValuesArray" THEN valueAt(call.input, i)
     ELSE IF call.input[f] # Absent THEN call.input[f]
     ELSE IF f = "uncleHash" THEN KECCAK256_RLP_ARRAY
     ELSE zeros(FixedWidth[f])
WrongWidths == { f \in FixedWidthFields : Len(GivenField(f)) # FixedWidth[f] }

\* C15: every header construction returns has its nine fixed-width fields
\* at their width, and an attempt with one of them at another width fails
\* with an error naming such a field.
C15_FixedWidths ==
  /\ HeaderBuilt =>
        \A f \in FixedWidthFields : Len(call.res.header[f]) = FixedWidth[f]
  /\ (/\ call.op = "header"
      /\ call.pc # "start"
      /\ call.via \in {"fromValuesArray", "fromHeaderData"}
      /\ Len(call.input) <= 15
      /\ ~call.options.initWithGenesisHeader
      /\ WrongWidths # {})
        => HeaderFailed /\ \E f \in WrongWidths : call.res.err = WidthError[f]

\* ---------------------------------------------------------------- C16
\* the values a construction attempt gives, position by position
GivenValue(i) ==
  IF call.via = "fromValuesArray" THEN valueAt(call.input, i)
  ELSE IF call.via = "fromRLPSerializedHeader"
    THEN valueAt(rlpDecode(call.input).items, i)
  ELSE IF call.input[FieldOrder[i]] # Absent THEN call.input[FieldOrder[i]]
  ELSE IF FieldOrder[i] \in FixedWidthFields THEN GivenField(FieldOrder[i])
  ELSE << >>
\* the number and the extraData the header is built with
EffectiveNumber ==
  IF call.options.initWithGenesisHeader THEN 0
  ELSE bnToNumber(bnFromBuffer(GivenValue(9)))
EffectiveExtraData ==
  IF call.options.initWithGenesisHeader /\ Len(GivenValue(13)) = 0
    THEN call.options.common.genesis.extraData
    ELSE GivenValue(13)
DaoBlock == hardforkBlock(call.options.common, "dao")
InDaoWindow ==
  /\ hardforkIsActiveOnChain(call.options.common, "dao")
  /\ DaoBlock <= EffectiveNumber
  /\ EffectiveNumber <= DaoBlock + 9
DaoError == "extraData should be 'dao-hard-fork'"
\* the errors construction throws before it reaches the gate
BeforeDaoGate ==
  { "Invalid serialized header input. Must be array",
    "invalid header. More values than expected were received",
    "Invalid address length",
    "Genesis parameters can only be set with a Common instance set to chainstart",
    "parentHash must be 32 bytes", "stateRoot must be 32 bytes",
    "transactionsTrie must be 32 bytes", "receiptTrie must be 32 bytes",
    "mixHash must be 32 bytes", "nonce must be 8 bytes" }
ReachesDaoGate ==
  \/ HeaderBuilt
  \/ /\ HeaderFailed
     /\ call.res.err \notin BeforeDaoGate
     /\ call.via = "fromRLPSerializedHeader" => rlpDecode(call.input).err = ""

\* C16: with the dao hardfork active on the chain and
\* hardforkBlock(dao) <= number <= hardforkBlock(dao) + 9, construction
\* succeeds only if extraData is the 13 bytes dao-hard-fork and fails with the
\* DAO extra-data error otherwise; outside that window, or without the dao
\* hardfork on the chain, the gate accepts any extraData.
C16_DaoGate ==
  /\ (HeaderBuilt /\ InDaoWindow) =>
        /\ call.res.header.extraData = DAO_ExtraData
        /\ Len(call.res.header.extraData) = 13
  /\ (ReachesDaoGate /\ InDaoWindow /\ EffectiveExtraData # DAO_ExtraData)
        => HeaderFailed /\ call.res.err = DaoError
  /\ (ReachesDaoGate /\ InDaoWindow /\ EffectiveExtraData = DAO_ExtraData)
        => ~(HeaderFailed /\ call.res.err = DaoError)
  /\ (call.op = "header" /\ call.pc # "start" /\ ~InDaoWindow)
        => ~(HeaderFailed /\ call.res.err = DaoError)

\* scenario S3: on mainnet a header of number 1920005 whose extraData is not
\* dao-hard-fork has failed with the DAO extra-data error
C16_Witness ==
  /\ HeaderFailed
  /\ call.res.err = DaoError
  /\ DaoBlock = 1920000
  /\ EffectiveNumber = 1920005
  /\ EffectiveExtraData # DAO_ExtraData

\* ---------------------------------------------------------------- C17
RoundTripDone == call.op = "header" /\ call.pc = "done"
\* minimal big-endian bytes: no leading zero byte, zero the empty string
Minimal(buf) == Len(buf) = 0 \/ buf[1] # 0

\* C17: the serialization of a header construction returned, decoded with
\* the same options, gives a header whose raw sequence of 15 elements equals
\* the header's own element for element, and in it each numeric field is the
\* field's value in minimal big-endian bytes, zero being the empty string.
C17_RoundTrip ==
  RoundTripDone =>
    /\ call.back.err = ""
    /\ Len(call.raw) = 15
    /\ Len(call.backRaw) = 15
    /\ \A i \in 1..15 : call.backRaw[i] = call.raw[i]
    /\ \A i \in NumericFields :
          /\ Minimal(call.raw[i])
          /\ bnFromBuffer(call.raw[i]) = call.res.header[FieldOrder[i]]
          /\ bnIsZero(call.res.header[FieldOrder[i]]) => call.raw[i] = << >>
    /\ \A i \in (1..15) \ NumericFields :
          call.raw[i] = call.res.header[FieldOrder[i]]

\* a header given the number 1 with a leading zero byte and no gas used has
\* been serialized and decoded again
C17_Witness ==
  /\ RoundTripDone
  /\ call.via = "fromValuesArray"
  /\ call.input[9] = << 0, 1 >>
  /\ call.raw[9] = << 1 >>
  /\ call.raw[11] = << >>
  /\ call.backRaw = call.raw

\* ---------------------------------------------------------------- C18
TxDone == call.op = "tx" /\ call.pc = "done" /\ Len(call.rawData) > 0
LeadingByte == call.rawData[1]
EIP2718Disabled == "Cannot create a TypedTransaction: EIP-2718 is not enabled"
UnknownTxType == "TypedTransaction with ID unknown"
EIP2930Decoder == "UnsignedEIP2930Transaction.fromRlpSerializedTx"
LegacyDecoder == "UnsignedLegacyTransaction.fromRlpSerializedTx"
EIPNotActivated == "Cannot create TypedTransaction: EIP 2930 not activated"

\* C18: with leading byte b: b <= 0x7F without EIP-2718 fails with
\* EIP2718Disabled; b <= 0x7F with EIP-2718 hands b = 0x01 to the EIP-2930
\* decoder and fails with UnknownTxType for every other b; b > 0x7F is
\* decoded as a legacy transaction; no other outcome occurs.
C18_Dispatch ==
  TxDone =>
    call.ret = IF LeadingByte <= 127
                 THEN IF 2718 \notin call.eips THEN EIP2718Disabled
                      ELSE IF LeadingByte = 1 THEN EIP2930Decoder
                      ELSE UnknownTxType
                 ELSE LegacyDecoder

\* C18 as amended: b = 0x01 with EIP-2718 is handed to the EIP-2930 decoder
\* when EIP-2930 is active too, and fails with the not-activated error when
\* it is not.
C18_DispatchAmended ==
  TxDone =>
    call.ret = IF LeadingByte <= 127
                 THEN IF 2718 \notin call.eips THEN EIP2718Disabled
                      ELSE IF LeadingByte # 1 THEN UnknownTxType
                      ELSE IF 2930 \in call.eips THEN EIP2930Decoder
                      ELSE EIPNotActivated
                 ELSE LegacyDecoder

\* a typed transaction of type 1 has been decoded with EIP-2718 active and
\* EIP-2930 not
C18_Witness ==
  /\ TxDone
  /\ LeadingByte = 1
  /\ 2718 \in call.eips
  /\ 2930 \notin call.eips
  /\ call.ret = EIPNotActivated
====
